---- MODULE Spec2Model ----
(***************************************************************************)
(* State-machine model of src/data_anonymizer.py: the DataAnonymizer class *)
(* (load_data, apply_differential_privacy, apply_k_anonymity,              *)
(* save_anonymized_data, get_anonymization_report) driven by a caller that *)
(* loads small CSV tables and makes a bounded number of calls.             *)
(*                                                                         *)
(* A DataFrame is a record [isNone, columns, data]: columns is the ordered *)
(* sequence of column names and data[j] the sequence of cells of column j, *)
(* aligned by row position.  A cell is a tagged scalar: a Python int, a    *)
(* float (kept in hundredths, since every float the program produces has   *)
(* been rounded to 2 decimals; the float -0.0 is a cell of its own), a str *)
(* (a sequence of one-character strings) or NaN, the missing value.        *)
(*                                                                         *)
(* df and original_df are the two attributes of the anonymizer.  pre, last *)
(* and calls record the call just made: the store it started from, its     *)
(* arguments and the exception it raised, and how many calls were made.    *)
(* report is the list get_anonymization_report printed last, saved the     *)
(* file save_anonymized_data wrote last.                                    *)
(*                                                                         *)
(* Library behaviour the model takes from the source's calls:              *)
(*   - groupby(cols, dropna=False) keeps rows with a missing value, all    *)
(*     rows with equal keys (missing equal to missing) forming one group;  *)
(*   - str(nan) is "nan"; '*' * n is empty for n <= 0;                     *)
(*   - max() - min() on a column holding strings raises TypeError;         *)
(*   - Series.nunique() leaves missing values out of the count;            *)
(*   - Series.round(2) rounds a tie to the even digit, and a negative      *)
(*     value that rounds to zero to -0.0; 0.0 and -0.0 are equal as group  *)
(*     keys and as distinct values;                                        *)
(*   - groupby on a name that is no column raises KeyError.                *)
(*   - float64 arithmetic is IEEE 754 double arithmetic, each operation     *)
(*     rounded to the nearest double: a float cell of h hundredths is the  *)
(*     double nearest to h / 100, not h / 100 itself.                      *)
(* The caller's quasi-identifier lists name string columns.                 *)
(***************************************************************************)
EXTENDS Integers, Sequences, FiniteSets, TLC

VARIABLES df, original_df, pre, last, report, saved, calls

vars == <<df, original_df, pre, last, report, saved, calls>>

\* ------------------------------------------------------------------ bounds
MaxRows == 3
MaxK == 2
MaxCalls == 3

\* ------------------------------------------------------------------ cells
IntV(n) == [t |-> "int", n |-> n, s |-> <<>>]
FloatV(h) == [t |-> "float", n |-> h, s |-> <<>>]
StrV(s) == [t |-> "str", n |-> 0, s |-> s]
NaN == [t |-> "nan", n |-> 0, s |-> <<>>]

\* the float -0.0: zero hundredths, s holding its sign
NegZero == [t |-> "float", n |-> 0, s |-> <<"-">>]

\* the value a cell is compared by: -0.0 == 0.0
Canon(v) == IF v = NegZero THEN FloatV(0) ELSE v

Digit(d) == <<"0", "1", "2", "3", "4", "5", "6", "7", "8", "9">>[d + 1]

RECURSIVE NatStr(_)
NatStr(n) == IF n < 10 THEN <<Digit(n)>> ELSE NatStr(n \div 10) \o <<Digit(n % 10)>>

\* str(int)
IntStr(n) == IF n < 0 THEN <<"-">> \o NatStr(-n) ELSE NatStr(n)

\* str(float) of a float holding h hundredths: shortest repr, at least one
\* fractional digit ("7.0", "7.5", "7.25", "-1.5"); str(-0.0) is "-0.0"
FloatStr(h) ==
  LET a == IF h < 0 THEN -h ELSE h
      frac == a % 100
      fs == IF frac % 10 = 0 THEN <<Digit(frac \div 10)>>
            ELSE <<Digit(frac \div 10), Digit(frac % 10)>>
  IN (IF h < 0 THEN <<"-">> ELSE <<>>) \o NatStr(a \div 100) \o <<".">> \o fs

\* str(x)
Str(v) ==
  CASE v.t = "str" -> v.s
    [] v.t = "int" -> IntStr(v.n)
    [] v.t = "float" -> v.s \o FloatStr(v.n)
    [] v.t = "nan" -> <<"n", "a", "n">>

\* Python's  c * n  on a one-character string: empty when n <= 0
Repeat(c, n) == IF n <= 0 THEN <<>> ELSE [i \in 1..n |-> c]

\* Python's  s[:n]
Slice(s, n) == IF Len(s) <= n THEN s ELSE SubSeq(s, 1, n)

\* variant of Suppress with one '*' too many
SuppressOffByOne(x) == StrV(Repeat("*", Len(Str(x)) + 1))

\* lambda x: '*' * len(str(x))
Suppress(x) == StrV(Repeat("*", Len(Str(x))))

\* variant of Generalize keeping one character instead of two
GeneralizeKeepOne(x) == StrV(Slice(Str(x), 1) \o Repeat("*", Len(Str(x)) - 1))

\* variant of Generalize padding with len - 1 stars instead of len - 2
GeneralizeExtraStar(x) == StrV(Slice(Str(x), 2) \o Repeat("*", Len(Str(x)) - 1))

\* lambda x: str(x)[:2] + '*' * (len(str(x)) - 2)
Generalize(x) == StrV(Slice(Str(x), 2) \o Repeat("*", Len(Str(x)) - 2))

\* ------------------------------------------------------------------ frames
\* self.df = None / self.original_df = None
NoneDf == [isNone |-> TRUE, columns |-> <<>>, data |-> <<>>]

Frame(columns, data) == [isNone |-> FALSE, columns |-> columns, data |-> data]

Range(q) == {q[j] : j \in 1..Len(q)}

\* col in df.columns
HasColumn(d, col) == col \in Range(d.columns)

ColIdx(d, col) == CHOOSE j \in 1..Len(d.columns) : d.columns[j] = col

\* df[col]
Column(d, col) == d.data[ColIdx(d, col)]

\* len(df)
NumRows(d) == IF Len(d.data) = 0 THEN 0 ELSE Len(d.data[1])

Rows(d) == 1..NumRows(d)

\* df.loc[indices, col] = series   (aligned on the row index)
SetCells(d, indices, col, series) ==
  [d EXCEPT !.data[ColIdx(d, col)] =
     [i \in 1..Len(@) |-> IF i \in indices THEN series[i] ELSE @[i]]]

\* ------------------------------------------------------------------ inputs
ColumnNames == <<"age", "Zipcode", "city">>

\* the int64 column of an n-row file: 7, 30, 31, ...
AgeColumn(n) == [i \in 1..n |-> IntV(IF i = 1 THEN 7 ELSE 28 + i)]

ZipValues == {StrV(<<"a", "b", "c">>), StrV(<<"a", "b", "d">>), NaN}

CityValues == {StrV(<<"x">>), StrV(<<"y", "z">>)}

\* what pd.read_csv returns for the CSV files the caller may name: an int64
\* column "age", a string column "Zipcode" with missing cells (and at least
\* one string, or read_csv would make it float64) and a string column "city"
FilesOf(n) ==
  {Frame(ColumnNames, <<AgeColumn(n), z, c>>) :
     z \in {f \in [1..n -> ZipValues] : \E i \in 1..n : f[i] # NaN},
     c \in [1..n -> CityValues]}

Files == UNION {FilesOf(n) : n \in 1..MaxRows}

\* the files the caller may load into an anonymizer that already holds data
ReloadFiles == FilesOf(1)

QuasiIdLists == {<<"city">>, <<"Zipcode", "city">>, <<"state">>}

NumericLists == {<<"salary", "age">>, <<"age", "salary">>, <<"Zipcode", "age">>}

Epsilons == {1, 2}

\* samples of the standard Laplace variate, in thousandths (the variate is the
\* double nearest to sample / 1000): np.random.laplace returns
\* loc + scale * variate
LaplaceSamples == {-609, 695}

\* variant of KnownStrategies with the membership check letting any name through
KnownStrategiesUnchecked == {"suppression", "generalization", "synthetic", "bogus"}

KnownStrategies == {"suppression", "generalization", "synthetic"}

StrategyInputs == KnownStrategies \cup {"bogus"}

\* the Faker provider and random.choice, as the sequences of values they may return
FakeZipcodes == <<StrV(<<"9", "0", "2", "1", "0">>), StrV(<<"1", "0", "0", "0", "1">>)>>

FakeGenders == <<StrV(<<"M", "a", "l", "e">>), StrV(<<"F", "e", "m", "a", "l", "e">>)>>

FakeJobs == <<StrV(<<"C", "h", "e", "f">>)>>

FakeWords == <<StrV(<<"s", "e", "a">>)>>

\* the characters of a column name
Chars(col) ==
  CASE col = "age" -> <<"a", "g", "e">>
    [] col = "city" -> <<"c", "i", "t", "y">>
    [] col = "state" -> <<"s", "t", "a", "t", "e">>
    [] col = "salary" -> <<"s", "a", "l", "a", "r", "y">>
    [] col = "name" -> <<"n", "a", "m", "e">>
    [] col = "zip" -> <<"z", "i", "p">>
    [] col = "ZIP" -> <<"Z", "I", "P">>
    [] col = "Zipcode" -> <<"Z", "i", "p", "c", "o", "d", "e">>
    [] col = "zipcode" -> <<"z", "i", "p", "c", "o", "d", "e">>
    [] col = "gender" -> <<"g", "e", "n", "d", "e", "r">>
    [] col = "Gender" -> <<"G", "e", "n", "d", "e", "r">>
    [] col = "job" -> <<"j", "o", "b">>
    [] col = "job_title" -> <<"j", "o", "b", "_", "t", "i", "t", "l", "e">>
    [] col = "occupation" -> <<"o", "c", "c", "u", "p", "a", "t", "i", "o", "n">>
    [] col = "Occupation" -> <<"O", "c", "c", "u", "p", "a", "t", "i", "o", "n">>

UpperCase == <<"A", "B", "C", "D", "E", "F", "G", "H", "I", "J", "K", "L", "M",
               "N", "O", "P", "Q", "R", "S", "T", "U", "V", "W", "X", "Y", "Z">>

LowerCase == <<"a", "b", "c", "d", "e", "f", "g", "h", "i", "j", "k", "l", "m",
               "n", "o", "p", "q", "r", "s", "t", "u", "v", "w", "x", "y", "z">>

\* str.lower()
Lower(s) ==
  [p \in 1..Len(s) |->
     IF \E u \in 1..Len(UpperCase) : UpperCase[u] = s[p]
     THEN LowerCase[CHOOSE u \in 1..Len(UpperCase) : UpperCase[u] = s[p]]
     ELSE s[p]]

\* word in s
Contains(word, s) ==
  \E p \in 0..(Len(s) - Len(word)) : SubSeq(s, p + 1, p + Len(word)) = word

\* the branch taken on col.lower(): 'zip', 'gender', 'occupation' or 'job',
\* else fake.word()
FakeProvider(col) ==
  LET lower == Lower(Chars(col))
  IN IF Contains(<<"z", "i", "p">>, lower) THEN FakeZipcodes
     ELSE IF Contains(<<"g", "e", "n", "d", "e", "r">>, lower) THEN FakeGenders
     ELSE IF Contains(<<"o", "c", "c", "u", "p", "a", "t", "i", "o", "n">>, lower)
               \/ Contains(<<"j", "o", "b">>, lower) THEN FakeJobs
     ELSE FakeWords

\* ------------------------------------------------------------------ grouping
\* the tuple of values of row i in the grouping columns
GroupKey(d, cols, i) == [j \in 1..Len(cols) |-> Canon(Column(d, cols[j])[i])]

\* df.groupby(cols, dropna=False).groups : key -> row indices
GroupBy(d, cols) ==
  LET keys == {GroupKey(d, cols, i) : i \in Rows(d)}
  IN [g \in keys |-> {i \in Rows(d) : GroupKey(d, cols, i) = g}]

\* variant of SmallGroups with <= in place of <
SmallGroupsInclusive(groups, k) == {g \in DOMAIN groups : Cardinality(groups[g]) <= k}

\* [group for group in groups if len(groups[group]) < k]
SmallGroups(groups, k) == {g \in DOMAIN groups : Cardinality(groups[g]) < k}

\* self.df[col].apply(lambda ...) for the two deterministic strategies, and the
\* list of fresh fake values laid over the rows of the group for synthetic
RewrittenColumn(d, col, strategy, draw) ==
  LET c == Column(d, col)
  IN [i \in 1..Len(c) |->
        CASE strategy = "suppression" -> Suppress(c[i])
          [] strategy = "generalization" -> Generalize(c[i])
          [] OTHER -> IF <<i, col>> \in DOMAIN draw
                      THEN FakeProvider(col)[draw[<<i, col>>]] ELSE c[i]]

\* for col in quasi_identifiers: self.df.loc[indices, col] = ...
RECURSIVE RewriteGroup(_, _, _, _, _, _)
RewriteGroup(d, indices, cols, j, strategy, draw) ==
  IF j > Len(cols) THEN d
  ELSE RewriteGroup(SetCells(d, indices, cols[j], RewrittenColumn(d, cols[j], strategy, draw)),
                    indices, cols, j + 1, strategy, draw)

\* for group in small_groups: indices = groups[group]; ...
RECURSIVE RewriteGroups(_, _, _, _, _, _)
RewriteGroups(d, groups, todo, cols, strategy, draw) ==
  IF todo = {} THEN d
  ELSE LET g == CHOOSE x \in todo : TRUE
       IN RewriteGroups(RewriteGroup(d, groups[g], cols, 1, strategy, draw),
                        groups, todo \ {g}, cols, strategy, draw)

\* variant of KAnonymize that groups again before each column instead of once
RECURSIVE RegroupFrom(_, _, _, _, _, _)
RegroupFrom(d, cols, j, k, strategy, draw) ==
  IF j > Len(cols) THEN d
  ELSE LET groups == GroupBy(d, cols)
           rows == UNION {groups[g] : g \in SmallGroups(groups, k)}
       IN RegroupFrom(SetCells(d, rows, cols[j], RewrittenColumn(d, cols[j], strategy, draw)),
                      cols, j + 1, k, strategy, draw)

KAnonymizeRegrouping(d, cols, k, strategy, draw) == RegroupFrom(d, cols, 1, k, strategy, draw)

\* the body of apply_k_anonymity after the strategy check
KAnonymize(d, cols, k, strategy, draw) ==
  LET groups == GroupBy(d, cols)
  IN RewriteGroups(d, groups, SmallGroups(groups, k), cols, strategy, draw)

\* the rows the synthetic strategy draws fresh values for
SyntheticRows(d, cols, k) ==
  LET groups == GroupBy(d, cols)
  IN UNION {groups[g] : g \in SmallGroups(groups, k)}

\* the ways the provider may answer for the cells <<row, column>> of the given
\* rows and columns: for each cell, a position in its column's provider
RECURSIVE FakeDrawsOver(_, _)
FakeDrawsOver(rows, columns) ==
  IF columns = {} THEN {<<>>}
  ELSE LET c == CHOOSE x \in columns : TRUE
       IN {[cell \in DOMAIN rest \cup (rows \X {c}) |->
              IF cell[2] = c THEN one[cell[1]] ELSE rest[cell]] :
             rest \in FakeDrawsOver(rows, columns \ {c}),
             one \in [rows -> 1..Len(FakeProvider(c))]}

FakeDraws(d, cols, k, strategy) ==
  IF strategy = "synthetic" /\ \A j \in 1..Len(cols) : HasColumn(d, cols[j])
  THEN FakeDrawsOver(SyntheticRows(d, cols, k), Range(cols))
  ELSE {<<>>}

\* ------------------------------------------------------------------ noise
IsNumber(v) == v.t \in {"int", "float"}

\* the value of a numeric cell in hundredths
Hundredths(v) == IF v.t = "int" THEN 100 * v.n ELSE v.n

SetMax(S) == CHOOSE x \in S : \A y \in S : y <= x

SetMin(S) == CHOOSE x \in S : \A y \in S : x <= y

\* ---- natural numbers of any size: sequences of limbs below LimbBase, the
\* least significant first, the last limb nonzero (0 is the empty sequence)
LimbBits == 15

LimbBase == 2 ^ LimbBits

Limb(a, i) == IF i <= Len(a) THEN a[i] ELSE 0

RECURSIVE Trim(_)
Trim(a) ==
  IF a = <<>> THEN a
  ELSE IF a[Len(a)] = 0 THEN Trim(SubSeq(a, 1, Len(a) - 1)) ELSE a

RECURSIVE BigNat(_)
BigNat(n) == IF n = 0 THEN <<>> ELSE <<n % LimbBase>> \o BigNat(n \div LimbBase)

RECURSIVE BigToInt(_)
BigToInt(a) == IF a = <<>> THEN 0 ELSE a[1] + LimbBase * BigToInt(Tail(a))

RECURSIVE BigAddFrom(_, _, _, _)
BigAddFrom(a, b, i, carry) ==
  IF i > Len(a) /\ i > Len(b) THEN (IF carry = 0 THEN <<>> ELSE <<carry>>)
  ELSE LET t == Limb(a, i) + Limb(b, i) + carry
       IN <<t % LimbBase>> \o BigAddFrom(a, b, i + 1, t \div LimbBase)

BigAdd(a, b) == BigAddFrom(a, b, 1, 0)

\* a - b for a >= b
RECURSIVE BigSubFrom(_, _, _, _)
BigSubFrom(a, b, i, borrow) ==
  IF i > Len(a) THEN <<>>
  ELSE LET t == Limb(a, i) - Limb(b, i) - borrow
       IN <<t % LimbBase>> \o BigSubFrom(a, b, i + 1, IF t < 0 THEN 1 ELSE 0)

BigSub(a, b) == Trim(BigSubFrom(a, b, 1, 0))

\* -1, 0 or 1 as a < b, a = b or a > b, comparing from limb i down
RECURSIVE BigCmpFrom(_, _, _)
BigCmpFrom(a, b, i) ==
  IF i = 0 THEN 0
  ELSE IF a[i] < b[i] THEN -1
  ELSE IF a[i] > b[i] THEN 1
  ELSE BigCmpFrom(a, b, i - 1)

BigCmp(a, b) ==
  IF Len(a) < Len(b) THEN -1
  ELSE IF Len(a) > Len(b) THEN 1
  ELSE BigCmpFrom(a, b, Len(a))

\* a * k for 0 <= k <= LimbBase
RECURSIVE BigMulSmallFrom(_, _, _, _)
BigMulSmallFrom(a, k, i, carry) ==
  IF i > Len(a) THEN (IF carry = 0 THEN <<>> ELSE <<carry>>)
  ELSE LET t == a[i] * k + carry
       IN <<t % LimbBase>> \o BigMulSmallFrom(a, k, i + 1, t \div LimbBase)

BigMulSmall(a, k) == Trim(BigMulSmallFrom(a, k, 1, 0))

RECURSIVE BigMulFrom(_, _, _)
BigMulFrom(a, b, i) ==
  IF i > Len(b) THEN <<>>
  ELSE BigAdd(BigMulSmall(a, b[i]), Trim(<<0>> \o BigMulFrom(a, b, i + 1)))

BigMul(a, b) == BigMulFrom(a, b, 1)

\* quotient and remainder of a by k, 0 < k <= LimbBase, from limb i down
RECURSIVE BigDivSmallFrom(_, _, _, _, _)
BigDivSmallFrom(a, k, i, rem, quot) ==
  IF i = 0 THEN [quot |-> Trim(quot), rem |-> rem]
  ELSE LET cur == rem * LimbBase + a[i]
       IN BigDivSmallFrom(a, k, i - 1, cur % k, <<cur \div k>> \o quot)

BigDivSmall(a, k) == BigDivSmallFrom(a, k, Len(a), 0, <<>>)

\* a * 2^n
BigShl(a, n) ==
  IF a = <<>> THEN a
  ELSE [i \in 1..(n \div LimbBits) |-> 0] \o BigMulSmall(a, 2 ^ (n % LimbBits))

\* a \div 2^n
BigShr(a, n) ==
  IF n \div LimbBits >= Len(a) THEN <<>>
  ELSE BigDivSmall(SubSeq(a, n \div LimbBits + 1, Len(a)), 2 ^ (n % LimbBits)).quot

RECURSIVE BitLen(_)
BitLen(n) == IF n = 0 THEN 0 ELSE 1 + BitLen(n \div 2)

\* the number of bits of a
BigBitLen(a) == IF a = <<>> THEN 0 ELSE LimbBits * (Len(a) - 1) + BitLen(a[Len(a)])

BigOdd(a) == a # <<>> /\ a[1] % 2 = 1

\* a / 2^n rounded to the nearest integer, a tie to the even one; sticky says
\* that a stands for a value slightly above a
BigRoundShr(a, n, sticky) ==
  IF n <= 0 THEN BigShl(a, -n)
  ELSE LET q == BigShr(a, n)
           c == BigCmp(BigSub(a, BigShl(q, n)), BigShl(<<1>>, n - 1))
       IN IF c > 0 \/ (c = 0 /\ (sticky \/ BigOdd(q))) THEN BigAdd(q, <<1>>) ELSE q

\* ---- IEEE 754 doubles: [neg, m, e] is (-1)^neg * m * 2^e, m below 2^53
\* (the values of the model lie far inside the exponent range)
MantissaBits == 53

GuardBits == 75

Double(neg, m, e) == [neg |-> neg, m |-> m, e |-> e]

DZero == Double(FALSE, <<>>, 0)

\* the double nearest to m * 2^e (plus a little, when sticky)
DRound(neg, m, e, sticky) ==
  LET drop == BigBitLen(m) - MantissaBits
  IN IF m = <<>> THEN Double(neg, <<>>, 0)
     ELSE IF drop <= 0 THEN Double(neg, m, e)
     ELSE Double(neg, BigRoundShr(m, drop, sticky), e + drop)

\* the double nearest to p / q, 0 < q <= LimbBase: the value of a literal, and
\* of a float holding p hundredths (q = 100)
DRatio(p, q) ==
  LET d == BigDivSmall(BigShl(BigNat(IF p < 0 THEN -p ELSE p), GuardBits), q)
  IN DRound(p < 0, d.quot, -GuardBits, d.rem # 0)

\* x / k for an integer 0 < k <= LimbBase
DDivSmall(x, k) ==
  LET d == BigDivSmall(BigShl(x.m, GuardBits), k)
  IN DRound(x.neg, d.quot, x.e - GuardBits, d.rem # 0)

\* x * y
DMul(x, y) == DRound(x.neg # y.neg, BigMul(x.m, y.m), x.e + y.e, FALSE)

DNeg(x) == Double(~x.neg, x.m, x.e)

\* x + y; an exact zero sum is +0.0 unless both are -0.0
DAdd(x, y) ==
  IF x.m = <<>> /\ y.m = <<>> THEN Double(x.neg /\ y.neg, <<>>, 0)
  ELSE IF x.m = <<>> THEN y
  ELSE IF y.m = <<>> THEN x
  ELSE LET e == IF x.e < y.e THEN x.e ELSE y.e
           a == BigShl(x.m, x.e - e)
           b == BigShl(y.m, y.e - e)
           c == BigCmp(a, b)
       IN IF x.neg = y.neg THEN DRound(x.neg, BigAdd(a, b), e, FALSE)
          ELSE IF c = 0 THEN DZero
          ELSE IF c > 0 THEN DRound(x.neg, BigSub(a, b), e, FALSE)
          ELSE DRound(y.neg, BigSub(b, a), e, FALSE)

\* np.rint(x): the nearest integer, a tie to the even one
DRint(x) ==
  LET n == BigToInt(BigRoundShr(x.m, -x.e, FALSE))
  IN IF x.neg THEN -n ELSE n

DHundred == DRatio(100, 1)

\* the largest and the smallest number of a column, NaN cells skipped
ColumnMax(c) == SetMax({Hundredths(c[i]) : i \in {r \in 1..Len(c) : IsNumber(c[r])}})

ColumnMin(c) == SetMin({Hundredths(c[i]) : i \in {r \in 1..Len(c) : IsNumber(c[r])}})

\* .max() - .min() for a largest value of hi and a smallest of lo hundredths
Sensitivity(hi, lo) == DAdd(DRatio(hi, 100), DNeg(DRatio(lo, 100)))

\* (value + noise) * 100 as the code's doubles, for the value of h hundredths
\* and the noise np.random.laplace(0, scale) returns for the standard variate
\* sample / 1000: loc + scale * variate with scale = sensitivity / epsilon
NoisyScaled(h, hi, lo, epsilon, sample) ==
  LET scale == DDivSmall(Sensitivity(hi, lo), epsilon)
      noise == DAdd(DZero, DMul(scale, DRatio(sample, 1000)))
  IN DMul(DAdd(DRatio(h, 100), noise), DHundred)

\* the same sum in exact arithmetic, as the numerator of a fraction over
\* 1000 * epsilon
NoisyNum(h, hi, lo, epsilon, sample) == h * 1000 * epsilon + (hi - lo) * sample

\* the exact sum lies where the last bits of the doubles decide the result:
\* half way between two hundredths, or at zero (whose sign the cell keeps)
OnBoundary(h, hi, lo, epsilon, sample) ==
  LET num == NoisyNum(h, hi, lo, epsilon, sample)
  IN num = 0 \/ 2 * (num % (1000 * epsilon)) = 1000 * epsilon

\* the float cell (value + noise).round(2).  Away from a boundary the doubles
\* and the exact sum round to the same hundredth, the error of the doubles
\* being far smaller than the distance to the boundary, and the exact sum is
\* rounded; on a boundary the doubles are.
NoisyCell(h, hi, lo, epsilon, sample) ==
  IF OnBoundary(h, hi, lo, epsilon, sample)
  THEN LET scaled == NoisyScaled(h, hi, lo, epsilon, sample)
           n == DRint(scaled)
       IN IF n = 0 /\ scaled.neg THEN NegZero ELSE FloatV(n)
  ELSE LET num == NoisyNum(h, hi, lo, epsilon, sample)
           n == (2 * num + 1000 * epsilon) \div (2 * 1000 * epsilon)
       IN IF n = 0 /\ num < 0 THEN NegZero ELSE FloatV(n)

\* round(value + noise, 2), in hundredths
NoisyRounded(h, hi, lo, epsilon, sample) == NoisyCell(h, hi, lo, epsilon, sample).n

\* self.df[col] = (self.df[col] + noise).round(2): the column becomes float64;
\* NaN + noise is NaN, and an all-NaN column has a NaN scale and stays NaN
PerturbedColumn(c, epsilon, samples) ==
  IF \A i \in 1..Len(c) : ~IsNumber(c[i]) THEN c
  ELSE [i \in 1..Len(c) |->
          IF IsNumber(c[i])
          THEN NoisyCell(Hundredths(c[i]), ColumnMax(c), ColumnMin(c), epsilon, samples[i])
          ELSE NaN]

\* max()/min()/subtraction raise TypeError on a column holding strings
RaisesTypeError(c) == \E i \in 1..Len(c) : c[i].t = "str"

\* variant of PerturbFrom that leaves the loop at the first absent column
RECURSIVE PerturbFromStopAtMissing(_, _, _, _, _)
PerturbFromStopAtMissing(d, cols, j, epsilon, samples) ==
  IF j > Len(cols) THEN [frame |-> d, error |-> "none"]
  ELSE IF ~HasColumn(d, cols[j]) THEN [frame |-> d, error |-> "none"]
  ELSE IF RaisesTypeError(Column(d, cols[j])) THEN [frame |-> d, error |-> "TypeError"]
  ELSE PerturbFromStopAtMissing(
         SetCells(d, Rows(d), cols[j], PerturbedColumn(Column(d, cols[j]), epsilon, samples[j])),
         cols, j + 1, epsilon, samples)

\* for col in numerical_columns: ...   from position j on; the result is the
\* frame and the error that ended the loop ("none" when it ran to the end)
RECURSIVE PerturbFrom(_, _, _, _, _)
PerturbFrom(d, cols, j, epsilon, samples) ==
  IF j > Len(cols) THEN [frame |-> d, error |-> "none"]
  ELSE IF ~HasColumn(d, cols[j]) THEN PerturbFrom(d, cols, j + 1, epsilon, samples)
  ELSE IF RaisesTypeError(Column(d, cols[j])) THEN [frame |-> d, error |-> "TypeError"]
  ELSE PerturbFrom(
         SetCells(d, Rows(d), cols[j], PerturbedColumn(Column(d, cols[j]), epsilon, samples[j])),
         cols, j + 1, epsilon, samples)

\* the draws np.random.laplace makes: one sample per row for each position of
\* the list the loop reaches whose column is present
NoiseDraws(d, cols) ==
  LET raises(j) == HasColumn(d, cols[j]) /\ RaisesTypeError(Column(d, cols[j]))
      drawn == {j \in 1..Len(cols) :
                  HasColumn(d, cols[j]) /\ \A p \in 1..j : ~raises(p)}
  IN [drawn -> [Rows(d) -> LaplaceSamples]]

\* ------------------------------------------------------------------ report
\* variant of NUnique counting NaN as a value (nunique(dropna=False))
NUniqueKeepNull(c) == Cardinality({Canon(c[i]) : i \in 1..Len(c)})

\* Series.nunique(): distinct values, NaN not counted
NUnique(c) == Cardinality({Canon(c[i]) : i \in 1..Len(c)} \ {NaN})

\* the report list built by get_anonymization_report, from position j on
RECURSIVE ReportFrom(_, _, _)
ReportFrom(orig, cur, j) ==
  IF j > Len(orig.columns) THEN <<>>
  ELSE LET col == orig.columns[j]
           original_unique == NUnique(Column(orig, col))
           anonymized_unique == NUnique(Column(cur, col))
       IN (IF HasColumn(cur, col)
           THEN <<(<<col, original_unique, anonymized_unique,
                     original_unique - anonymized_unique>>)>>
           ELSE <<>>) \o ReportFrom(orig, cur, j + 1)

\* df.to_csv(output_path, index=False): header, then one line of fields per
\* row; a missing value is written as the empty field
CsvField(v) == IF v.t = "nan" THEN <<>> ELSE Str(v)

ToCsv(d) ==
  [header |-> d.columns,
   lines |-> [i \in Rows(d) |-> [j \in 1..Len(d.columns) |-> CsvField(d.data[j][i])]]]

\* ------------------------------------------------------------------ state
Call(op, cols, k, strategy, epsilon, error) ==
  [op |-> op, cols |-> cols, k |-> k, strategy |-> strategy, epsilon |-> epsilon,
   error |-> error]

NoCall == Call("none", <<>>, 0, "", 0, "none")

Init ==
  /\ df = NoneDf
  /\ original_df = NoneDf
  /\ pre = NoneDf
  /\ last = NoCall
  /\ report = <<>>
  /\ saved = <<>>
  /\ calls = 0

\* load_data(filepath) on a path that exists: both stores are replaced
load_data(file) ==
  /\ calls' = calls + 1
  /\ df' = file
  /\ original_df' = file
  /\ pre' = df
  /\ last' = Call("load_data", <<>>, 0, "", 0, "none")
  /\ UNCHANGED <<report, saved>>

\* load_data(filepath) on a path that does not exist
load_data_missing ==
  /\ calls' = calls + 1
  /\ last' = Call("load_data", <<>>, 0, "", 0, "FileNotFoundError")
  /\ pre' = df
  /\ UNCHANGED <<df, original_df, report, saved>>

\* apply_k_anonymity(quasi_identifiers, k, strategy)
apply_k_anonymity(quasi_identifiers, k, strategy, draw) ==
  /\ calls' = calls + 1
  /\ pre' = df
  /\ IF strategy \notin KnownStrategies
     THEN /\ last' = Call("apply_k_anonymity", quasi_identifiers, k, strategy, 0, "ValueError")
          /\ df' = df
     ELSE IF \E j \in 1..Len(quasi_identifiers) : ~HasColumn(df, quasi_identifiers[j])
     THEN /\ last' = Call("apply_k_anonymity", quasi_identifiers, k, strategy, 0, "KeyError")
          /\ df' = df
     ELSE /\ last' = Call("apply_k_anonymity", quasi_identifiers, k, strategy, 0, "none")
          /\ df' = KAnonymize(df, quasi_identifiers, k, strategy, draw)
  /\ UNCHANGED <<original_df, report, saved>>

\* variant of apply_differential_privacy for a snapshot that shares the
\* store's data (original_df = df without copy())
apply_differential_privacy_shared(numerical_columns, epsilon, samples) ==
  /\ calls' = calls + 1
  /\ pre' = df
  /\ LET out == PerturbFrom(df, numerical_columns, 1, epsilon, samples)
     IN /\ df' = out.frame
        /\ original_df' = out.frame
        /\ last' = Call("apply_differential_privacy", numerical_columns, 0, "", epsilon,
                        out.error)
  /\ UNCHANGED <<report, saved>>

\* apply_differential_privacy(numerical_columns, epsilon)
apply_differential_privacy(numerical_columns, epsilon, samples) ==
  /\ calls' = calls + 1
  /\ pre' = df
  /\ LET out == PerturbFrom(df, numerical_columns, 1, epsilon, samples)
     IN /\ df' = out.frame
        /\ last' = Call("apply_differential_privacy", numerical_columns, 0, "", epsilon,
                        out.error)
  /\ UNCHANGED <<original_df, report, saved>>

\* save_anonymized_data(output_path)
save_anonymized_data ==
  /\ calls' = calls + 1
  /\ pre' = df
  /\ saved' = ToCsv(df)
  /\ last' = Call("save_anonymized_data", <<>>, 0, "", 0, "none")
  /\ UNCHANGED <<df, original_df, report>>

\* get_anonymization_report()
get_anonymization_report ==
  /\ calls' = calls + 1
  /\ pre' = df
  /\ report' = ReportFrom(original_df, df, 1)
  /\ last' = Call("get_anonymization_report", <<>>, 0, "", 0, "none")
  /\ UNCHANGED <<df, original_df, saved>>

\* the caller: it makes at most MaxCalls calls, a load among them at any
\* point, the other methods only on an anonymizer that holds data
CanCall == ~df.isNone /\ calls < MaxCalls

LoadCall ==
  /\ calls < MaxCalls
  /\ \E file \in (IF df.isNone THEN Files ELSE ReloadFiles) : load_data(file)

LoadMissingCall == calls < MaxCalls /\ load_data_missing

DifferentialPrivacyCall ==
  /\ CanCall
  /\ \E cols \in NumericLists, epsilon \in Epsilons :
       \E samples \in NoiseDraws(df, cols) :
         apply_differential_privacy(cols, epsilon, samples)

KAnonymityCall ==
  /\ CanCall
  /\ \E cols \in QuasiIdLists, k \in 1..MaxK, strategy \in StrategyInputs :
       \E draw \in FakeDraws(df, cols, k, strategy) :
         apply_k_anonymity(cols, k, strategy, draw)

SaveCall == CanCall /\ save_anonymized_data

ReportCall == CanCall /\ get_anonymization_report

Next ==
  \/ LoadCall
  \/ LoadMissingCall
  \/ DifferentialPrivacyCall
  \/ KAnonymityCall
  \/ SaveCall
  \/ ReportCall

Spec == Init /\ [][Next]_vars

\* the same program with a caller that loads and then makes one call
NextOneCall ==
  \/ calls = 0 /\ LoadCall
  \/ calls = 0 /\ LoadMissingCall
  \/ calls = 1 /\ DifferentialPrivacyCall
  \/ calls = 1 /\ KAnonymityCall
  \/ calls = 1 /\ SaveCall
  \/ calls = 1 /\ ReportCall

SpecOneCall == Init /\ [][NextOneCall]_vars

\* ================================================================== claims
Cell(d, col, i) == Column(d, col)[i]

SameClass(d, cols, i, j) ==
  \A c \in Range(cols) : Canon(Cell(d, c, i)) = Canon(Cell(d, c, j))

ClassSize(d, cols, i) == Cardinality({j \in Rows(d) : SameClass(d, cols, i, j)})

SmallRows(d, cols, k) == {i \in Rows(d) : ClassSize(d, cols, i) < k}

StarRun(n) == [p \in 1..n |-> "*"]

KAnonDone == last.op = "apply_k_anonymity" /\ last.error = "none"

SameShape(a, b) == a.columns = b.columns /\ NumRows(a) = NumRows(b)

StrategyRewrite(strategy, col, old, new) ==
  CASE strategy = "suppression" -> new = Suppress(old)
    [] strategy = "generalization" -> new = Generalize(old)
    [] strategy = "synthetic" -> new \in Range(FakeProvider(col))

\* C1: after a successful apply_k_anonymity(cols, k, strategy), every row whose
\* class over cols in the pre-call store has at least k rows is unchanged in
\* every column, and every row of a class with fewer than k rows has each of
\* its cols cells replaced by the strategy's rewrite of the pre-call value and
\* its other cells unchanged.
C1_Postcondition ==
  KAnonDone =>
    /\ SameShape(df, pre)
    /\ \A i \in Rows(pre) : \A c \in Range(pre.columns) :
         IF i \in SmallRows(pre, last.cols, last.k) /\ c \in Range(last.cols)
         THEN StrategyRewrite(last.strategy, c, Cell(pre, c, i), Cell(df, c, i))
         ELSE Cell(df, c, i) = Cell(pre, c, i)

C1_Witness ==
  /\ KAnonDone
  /\ Len(last.cols) = 2
  /\ \E i, j \in Rows(pre) :
       /\ i \in SmallRows(pre, last.cols, last.k)
       /\ j \notin SmallRows(pre, last.cols, last.k)
       /\ Cell(df, "Zipcode", i) # Cell(pre, "Zipcode", i)
       /\ Cell(df, "city", i) # Cell(pre, "city", i)

\* C2: after a successful apply_k_anonymity(cols, k, strategy) with suppression
\* or generalization, every combination of cols values occurring in the store
\* is shared by at least k rows.
C2_KAnonymous ==
  (KAnonDone /\ last.strategy \in {"suppression", "generalization"}) =>
    \A i \in Rows(df) : ClassSize(df, last.cols, i) >= last.k

\* C3: a call of apply_k_anonymity with a strategy outside suppression,
\* generalization, synthetic ends in the invalid-argument error (ValueError)
\* and leaves the current store and the original snapshot as they were before
\* the call, whatever the store, cols and k.
C3_InvalidStrategy ==
  [][(calls' = calls + 1 /\ last'.op = "apply_k_anonymity"
        /\ last'.strategy \notin {"suppression", "generalization", "synthetic"})
       => (last'.error = "ValueError" /\ df' = df /\ original_df' = original_df)]_vars

C3_Witness ==
  /\ last.op = "apply_k_anonymity"
  /\ last.strategy = "bogus"
  /\ last.error = "ValueError"
  /\ last.cols = <<"Zipcode", "city">>
  /\ SmallRows(pre, last.cols, last.k) # {}
  /\ df = pre

\* C4: under suppression every rewritten cell (a cols cell of a row of a small
\* class) is a string of '*' only, as long as the string representation of the
\* value the cell held at the start of the call.
C4_SuppressionLength ==
  (KAnonDone /\ last.strategy = "suppression") =>
    \A i \in SmallRows(pre, last.cols, last.k) : \A c \in Range(last.cols) :
      /\ Cell(df, c, i).t = "str"
      /\ Cell(df, c, i).s = StarRun(Len(Str(Cell(pre, c, i))))

\* several columns and several small groups rewritten in one call, with
\* originals of lengths 1 ("x"), 2 ("yz") and 3 (the missing value, "nan")
C4_Witness ==
  /\ KAnonDone
  /\ last.strategy = "suppression"
  /\ last.cols = <<"Zipcode", "city">>
  /\ \E i, j \in SmallRows(pre, last.cols, last.k) :
       /\ ~SameClass(pre, last.cols, i, j)
       /\ Cell(pre, "city", i) = StrV(<<"x">>) /\ Cell(df, "city", i) = StrV(<<"*">>)
       /\ Cell(pre, "city", j) = StrV(<<"y", "z">>) /\ Cell(df, "city", j) = StrV(<<"*", "*">>)
       /\ Cell(pre, "Zipcode", j) = NaN /\ Cell(df, "Zipcode", j) = StrV(<<"*", "*", "*">>)

\* C5: under generalization every rewritten cell is the first 2 characters of
\* the original string representation followed by max(len - 2, 0) '*': same
\* length and same first 2 characters when len >= 2, the original string
\* itself when len < 2.
C5_Generalization ==
  (KAnonDone /\ last.strategy = "generalization") =>
    \A i \in SmallRows(pre, last.cols, last.k) : \A c \in Range(last.cols) :
      LET old == Str(Cell(pre, c, i))
          new == Cell(df, c, i)
      IN /\ new.t = "str"
         /\ IF Len(old) >= 2
            THEN /\ Len(new.s) = Len(old)
                 /\ new.s[1] = old[1] /\ new.s[2] = old[2]
                 /\ \A p \in 3..Len(old) : new.s[p] = "*"
            ELSE new.s = old

C5_Witness ==
  /\ KAnonDone
  /\ last.strategy = "generalization"
  /\ \E i, j \in SmallRows(pre, last.cols, last.k) :
       /\ Cell(pre, "city", i) = StrV(<<"x">>) /\ Cell(df, "city", i) = StrV(<<"x">>)
       /\ Cell(pre, "Zipcode", j) = NaN /\ Cell(df, "Zipcode", j) = StrV(<<"n", "a", "*">>)
       /\ Cell(pre, "Zipcode", i) = StrV(<<"a", "b", "d">>)
       /\ Cell(df, "Zipcode", i) = StrV(<<"a", "b", "*">>)

\* the exact difference between the largest and the smallest number of a
\* column, in hundredths
Spread(c) == ColumnMax(c) - ColumnMin(c)

\* C6: apply_differential_privacy(columns, epsilon) on numeric columns with a
\* name absent from the store does not fail; no column is created for the
\* absent name, every listed column that is present is perturbed (each cell
\* becomes a float, the old value plus scaled noise rounded to 2 decimals)
\* wherever the absent name sits in the list, and every column not listed is
\* unchanged.
C6_MissingColumnSkipped ==
  (/\ last.op = "apply_differential_privacy"
   /\ \E c \in Range(last.cols) : ~HasColumn(pre, c)
   /\ \A c \in Range(last.cols) : \A i \in Rows(pre) :
        HasColumn(pre, c) => Cell(pre, c, i).t \in {"int", "float"})
  =>
    /\ last.error = "none"
    /\ SameShape(df, pre)
    /\ Len(df.data) = Len(pre.data)
    /\ \A c \in Range(pre.columns) : \A i \in Rows(pre) :
         IF c \in Range(last.cols)
         THEN /\ Cell(df, c, i).t = "float"
              /\ \E sample \in LaplaceSamples :
                   1000 * last.epsilon * (2 * (Cell(df, c, i).n - Hundredths(Cell(pre, c, i))) - 1)
                     <= 2 * Spread(Column(pre, c)) * sample
                   /\ 2 * Spread(Column(pre, c)) * sample
                     <= 1000 * last.epsilon * (2 * (Cell(df, c, i).n - Hundredths(Cell(pre, c, i))) + 1)
         ELSE Cell(df, c, i) = Cell(pre, c, i)

\* the absent name first in the list, and the present column moved by noise
C6_Witness ==
  /\ last.op = "apply_differential_privacy"
  /\ last.cols = <<"salary", "age">>
  /\ last.error = "none"
  /\ \E i \in Rows(pre) : Cell(pre, "age", i) = IntV(7) /\ Cell(df, "age", i).n < 0
  /\ Column(df, "Zipcode") = Column(pre, "Zipcode")
  /\ Column(df, "city") = Column(pre, "city")

\* C7: a successful load sets the original snapshot to the data loaded, and
\* every later call other than a load (differential privacy, k-anonymity
\* succeeding or failing, report, save) leaves the snapshot as it was; report
\* and save change neither store.
C7_SnapshotImmutable ==
  [][/\ (last'.op = "load_data" /\ last'.error = "none") => original_df' = df'
     /\ (~df.isNone /\ last'.op # "load_data") =>
          /\ original_df' = original_df
          /\ last'.op \in {"get_anonymization_report", "save_anonymized_data"} => df' = df]_vars

\* two mutating calls have run and the snapshot differs from both later stores
C7_Witness ==
  /\ calls >= 3
  /\ ~original_df.isNone
  /\ pre # original_df
  /\ df # pre
  /\ df # original_df

\* the distinct values of a column, a missing value counted as one of them
DistinctWithNull(d, col) == Cardinality({Canon(Cell(d, col, i)) : i \in Rows(d)})

\* the distinct values of a column, missing values left out
DistinctNonNull(d, col) ==
  Cardinality({Canon(Cell(d, col, i)) : i \in Rows(d)} \ {NaN})

\* C8 as stated: one report entry per column present in both stores, in the
\* original's column order, with gain = distinct(original) - distinct(current)
\* and a missing value counted as a distinct value.
C8_ReportCountsNull ==
  last.op = "get_anonymization_report" =>
    /\ Len(report) = Len(original_df.columns)
    /\ \A j \in 1..Len(report) :
         /\ report[j][1] = original_df.columns[j]
         /\ report[j][4] = DistinctWithNull(original_df, report[j][1])
                             - DistinctWithNull(df, report[j][1])

\* C8 amended: the same, with missing values not counted among the distinct
\* values of either store.
C8_Report ==
  last.op = "get_anonymization_report" =>
    /\ Len(report) = Len(original_df.columns)
    /\ \A j \in 1..Len(report) :
         /\ report[j][1] = original_df.columns[j]
         /\ HasColumn(df, report[j][1])
         /\ report[j][2] = DistinctNonNull(original_df, report[j][1])
         /\ report[j][3] = DistinctNonNull(df, report[j][1])
         /\ report[j][4] = report[j][2] - report[j][3]

\* a report after a transform, over a column that held a missing value, with a
\* negative gain
C8_Witness ==
  /\ last.op = "get_anonymization_report"
  /\ df # original_df
  /\ \E i \in Rows(original_df) : Cell(original_df, "Zipcode", i) = NaN
  /\ \E j \in 1..Len(report) : report[j][1] = "Zipcode" /\ report[j][4] < 0

\* C9: within one apply_k_anonymity call the rows rewritten are, for every
\* column of cols, exactly the rows of the classes that were small in the store
\* at the start of the call: a row's cols cell differs from its pre-call value
\* only if the row was in such a class, and every such row's cell holds the
\* rewrite, even when rewriting an earlier column made rows of different small
\* groups (or of a small and a large group) equal.
C9_SingleGrouping ==
  KAnonDone =>
    \A c \in Range(last.cols) :
      LET changed == {i \in Rows(pre) : Cell(df, c, i) # Cell(pre, c, i)}
          small == SmallRows(pre, last.cols, last.k)
      IN /\ changed \subseteq small
         /\ \A i \in small \ changed :
              /\ last.strategy # "synthetic"
              /\ Cell(pre, c, i) = (IF last.strategy = "suppression"
                                    THEN Suppress(Cell(pre, c, i))
                                    ELSE Generalize(Cell(pre, c, i)))

\* two rows of different small groups that the rewrite of zip made equal in
\* zip, both still rewritten in the later column city
C9_Witness ==
  /\ KAnonDone
  /\ last.cols = <<"Zipcode", "city">>
  /\ last.strategy = "suppression"
  /\ \E i, j \in SmallRows(pre, last.cols, last.k) :
       /\ Cell(pre, "Zipcode", i) # Cell(pre, "Zipcode", j)
       /\ Cell(pre, "city", i) = Cell(pre, "city", j)
       /\ Cell(df, "Zipcode", i) = Cell(df, "Zipcode", j)
       /\ Cell(df, "city", i) # Cell(pre, "city", i)
       /\ Cell(df, "city", j) # Cell(pre, "city", j)

\* C10: a second apply_k_anonymity call with the same cols, k and strategy as
\* the successful call just made, strategy suppression or generalization,
\* leaves the store exactly as the first call left it.
C10_Idempotent ==
  [][(/\ KAnonDone
      /\ last.strategy \in {"suppression", "generalization"}
      /\ calls' = calls + 1
      /\ last' = last)
       => df' = df]_vars

\* the state after the second of two equal calls on the loaded data, where the
\* first call rewrote a group that the second call found small again
C10_Witness ==
  /\ KAnonDone
  /\ calls >= 3
  /\ last.strategy \in {"suppression", "generalization"}
  /\ pre = KAnonymize(original_df, last.cols, last.k, last.strategy, <<>>)
  /\ pre # original_df
  /\ SmallRows(pre, last.cols, last.k) # {}
  /\ df = pre

====
